---- MODULE Spec2Model ----
(***************************************************************************)
(* Model of google_trends.py: DateToISOString (date normalisation) and     *)
(* GetQueryVolumes (batched fetch, merge into a (term, date) -> value      *)
(* dictionary, dense table construction).                                  *)
(*                                                                         *)
(* Python strings that the program inspects character by character (the    *)
(* date strings) are tuples of one-character strings; opaque strings       *)
(* (query terms, geo levels) are TLA+ strings.                             *)
(***************************************************************************)
EXTENDS Integers, Sequences, FiniteSets, TLC

VARIABLES
  platform,     \* the Python runtime the module runs on (decides strftime for early years)
  API_KEY,      \* module global API_KEY (line 13, set by the user)
  queries,      \* argument queries
  geo_level,    \* argument geo_level
  pc,           \* position of the call inside GetQueryVolumes
  service,      \* local service (line 70)
  dat,          \* local dat: the accumulating {(query, date): count} dictionary
  batch_intervals, \* the values range() (line 79) has not yet given to the loop
  batch_start,  \* loop variable of line 81
  query_batch,  \* local query_batch (line 83)
  req,          \* local req (lines 87-106)
  result,       \* the returned table, None while nothing was returned
  error,        \* the exception that left GetQueryVolumes, None while none did
  fault,        \* the exception the transport raised, None while none was raised
  log,          \* history: discovery fetches, timeline requests and sleeps, in order
  requests,     \* history: the term list of every timeline request issued, in order
  observed,     \* history: (term, date string as received) -> the value last received
  datestring,   \* argument of a direct DateToISOString call
  iso           \* outcome of a direct DateToISOString call

vars == <<platform, API_KEY, queries, geo_level, pc, service, dat,
          batch_intervals, batch_start, query_batch, req, result, error, fault, log, requests, observed,
          datestring, iso>>

\* the arguments and the environment of a call
inputs == <<platform, API_KEY, queries, geo_level, datestring>>

---------------------------------------------------------------------------
(* Bounds of the model *)

\* queries has at most MaxBatches batches
MaxBatches == 2
\* a response carries at most MaxPoints points in total
MaxPoints == 2

---------------------------------------------------------------------------
(* Program constants and Python values *)

MAX_QUERIES == 30

None == "None"

\* exceptions: the type and the message
NoError == [type |-> "None", msg |-> ""]
KeyNotSet == [type |-> "ValueError", msg |-> "API_KEY not set."]
BadGeoLevel == [type |-> "ValueError",
                msg |-> "geo_type must be one of 'country', 'region' or 'dma'"]
BadDate == [type |-> "ValueError",
            msg |-> "Date doesn't match any of '%b %d %Y', '%b %Y', '%Y'."]
\* raised by CPython 2's strftime
YearBefore1900 == [type |-> "ValueError",
                   msg |-> "the datetime strftime() methods require year >= 1900"]
\* what the HTTP client can raise from build() and from req.execute()
TransportErrors == {[type |-> "HttpError", msg |-> "403"],
                    [type |-> "socket.error", msg |-> "timed out"]}

\* placeholders of locals that are not bound yet
NoTable == <<>>
NoRequest == [terms |-> <<>>, field |-> None]

\* `not x` for the values API_KEY can hold
Falsy(x) == x \in {None, ""}

\* the runtimes: CPython 2 (strftime refuses years before 1900), CPython 3 on
\* glibc (strftime('%Y') does not pad), CPython 3 with a padding strftime
Platforms == {"py2", "py3_glibc", "py3_padded"}

Min(a, b) == IF a < b THEN a ELSE b

---------------------------------------------------------------------------
(* Characters *)

Digits == <<"0", "1", "2", "3", "4", "5", "6", "7", "8", "9">>
DigitSet == {Digits[i] : i \in 1..10}
DigitVal(c) == (CHOOSE i \in 1..10 : Digits[i] = c) - 1
Whitespace == {" ", "\t"}

UpperCase == <<"A", "B", "C", "D", "E", "F", "G", "H", "I", "J", "K", "L", "M",
               "N", "O", "P", "Q", "R", "S", "T", "U", "V", "W", "X", "Y", "Z">>
LowerCase == <<"a", "b", "c", "d", "e", "f", "g", "h", "i", "j", "k", "l", "m",
               "n", "o", "p", "q", "r", "s", "t", "u", "v", "w", "x", "y", "z">>
Lower(c) == IF \E i \in 1..26 : UpperCase[i] = c
            THEN LowerCase[CHOOSE i \in 1..26 : UpperCase[i] = c]
            ELSE c

\* characters of an ISO date in code point order: '-' (45) < '0'..'9' (48..57)
CharOrder == <<"-">> \o Digits
CharCode(c) == CHOOSE i \in 1..Len(CharOrder) : CharOrder[i] = c

\* Python's < on two strings of CharOrder characters
RECURSIVE StrLess(_, _)
StrLess(a, b) ==
  IF a = <<>> THEN b # <<>>
  ELSE IF b = <<>> THEN FALSE
  ELSE IF Head(a) = Head(b) THEN StrLess(Tail(a), Tail(b))
  ELSE CharCode(Head(a)) < CharCode(Head(b))

---------------------------------------------------------------------------
(* datetime.datetime.strptime for the three formats of DateToISOString *)

\* time.strptime's %b: the abbreviated month names, matched ignoring case
MonthNames == << <<"j", "a", "n">>, <<"f", "e", "b">>, <<"m", "a", "r">>,
                 <<"a", "p", "r">>, <<"m", "a", "y">>, <<"j", "u", "n">>,
                 <<"j", "u", "l">>, <<"a", "u", "g">>, <<"s", "e", "p">>,
                 <<"o", "c", "t">>, <<"n", "o", "v">>, <<"d", "e", "c">> >>

NoDate == [ok |-> FALSE, year |-> 0, month |-> 0, day |-> 0]

IsDigitAt(s, i) == i >= 1 /\ i <= Len(s) /\ s[i] \in DigitSet
FourDigitsAt(s, i) == \A j \in i..(i + 3) : IsDigitAt(s, j)
\* the number written by the four digits at i (%Y is \d\d\d\d)
Year4(s, i) == 1000 * DigitVal(s[i]) + 100 * DigitVal(s[i + 1])
               + 10 * DigitVal(s[i + 2]) + DigitVal(s[i + 3])

\* number of consecutive whitespace characters from position i (a greedy \s+)
RECURSIVE RunLen(_, _)
RunLen(s, i) == IF i >= 1 /\ i <= Len(s) /\ s[i] \in Whitespace
                THEN 1 + RunLen(s, i + 1) ELSE 0

\* the month (1..12) whose abbreviation is written at positions 1..3, 0 if none
MonthAt(s) ==
  IF Len(s) < 3 THEN 0
  ELSE LET w == <<Lower(s[1]), Lower(s[2]), Lower(s[3])>>
       IN IF \E m \in 1..12 : MonthNames[m] = w
          THEN CHOOSE m \in 1..12 : MonthNames[m] = w
          ELSE 0

\* alternative a of %d's regex, 3[0-1]|[1-2]\d|0[1-9]|[1-9]| [1-9], at position p
DayTok(s, p, a) ==
  LET two == IsDigitAt(s, p) /\ IsDigitAt(s, p + 1)
      v2  == 10 * DigitVal(s[p]) + DigitVal(s[p + 1])
  IN CASE a = 1 -> IF two /\ s[p] = "3" /\ s[p + 1] \in {"0", "1"}
                   THEN [ok |-> TRUE, len |-> 2, val |-> v2]
                   ELSE [ok |-> FALSE, len |-> 0, val |-> 0]
       [] a = 2 -> IF two /\ s[p] \in {"1", "2"}
                   THEN [ok |-> TRUE, len |-> 2, val |-> v2]
                   ELSE [ok |-> FALSE, len |-> 0, val |-> 0]
       [] a = 3 -> IF two /\ s[p] = "0" /\ s[p + 1] # "0"
                   THEN [ok |-> TRUE, len |-> 2, val |-> v2]
                   ELSE [ok |-> FALSE, len |-> 0, val |-> 0]
       [] a = 4 -> IF IsDigitAt(s, p) /\ s[p] # "0"
                   THEN [ok |-> TRUE, len |-> 1, val |-> DigitVal(s[p])]
                   ELSE [ok |-> FALSE, len |-> 0, val |-> 0]
       [] OTHER -> IF p >= 1 /\ p <= Len(s) /\ s[p] = " "
                      /\ IsDigitAt(s, p + 1) /\ s[p + 1] # "0"
                   THEN [ok |-> TRUE, len |-> 2, val |-> DigitVal(s[p + 1])]
                   ELSE [ok |-> FALSE, len |-> 0, val |-> 0]

IsLeap(y) == (y % 4 = 0) /\ ((y % 100 # 0) \/ (y % 400 = 0))
DaysInMonth(y, m) == IF m = 2 THEN (IF IsLeap(y) THEN 29 ELSE 28)
                     ELSE IF m \in {4, 6, 9, 11} THEN 30 ELSE 31

\* the date constructor behind strptime: ValueError outside the calendar
MakeDate(y, m, d) ==
  IF y >= 1 /\ y <= 9999 /\ m >= 1 /\ m <= 12 /\ d >= 1 /\ d <= DaysInMonth(y, m)
  THEN [ok |-> TRUE, year |-> y, month |-> m, day |-> d]
  ELSE NoDate

\* strptime(s, '%Y'): \d\d\d\d matched at the start, nothing may remain
Strptime_Y(s) ==
  IF FourDigitsAt(s, 1) /\ Len(s) = 4 THEN MakeDate(Year4(s, 1), 1, 1) ELSE NoDate

\* strptime(s, '%b %Y'): month m, \s+ of length w, \d\d\d\d, nothing may remain
MonthYear(s, m, w) ==
  IF m # 0 /\ w >= 1 /\ FourDigitsAt(s, 4 + w) /\ Len(s) = 4 + w + 3
  THEN MakeDate(Year4(s, 4 + w), m, 1)
  ELSE NoDate

Strptime_bY(s) == MonthYear(s, MonthAt(s), RunLen(s, 4))

\* where the regex of '%b %d %Y' ends when its first \s+ takes w characters and
\* %d matched as t: after t come \s+ and \d\d\d\d; 0 if they do not
MatchEnd(s, w, t) ==
  LET q == 4 + w + t.len
  IN IF t.ok /\ RunLen(s, q) >= 1 /\ FourDigitsAt(s, q + RunLen(s, q))
     THEN q + RunLen(s, q) + 3
     ELSE 0

MatchOf(s, w, a, t) == [w |-> w, a |-> a, day |-> t.val, end |-> MatchEnd(s, w, t)]

\* the ways the regex of '%b %d %Y' matches a prefix of s: w is the length
\* taken by the first \s+ and a the alternative of %d
FullDateMatches(s) ==
  { m \in { MatchOf(s, c[1], c[2], DayTok(s, 4 + c[1], c[2])) :
              c \in (1..RunLen(s, 4)) \X (1..5) } : m.end > 0 }

\* the match the regex engine finds first: greedy \s+, alternatives in order
FirstMatch(ms) ==
  CHOOSE x \in ms : \A y \in ms : x.w > y.w \/ (x.w = y.w /\ x.a <= y.a)

\* nothing may remain after the match
FullDateOf(s, m, c) ==
  IF c.end = Len(s) THEN MakeDate(Year4(s, c.end - 3), m, c.day) ELSE NoDate

FullDate(s, m, ms) ==
  IF m = 0 \/ ms = {} THEN NoDate ELSE FullDateOf(s, m, FirstMatch(ms))

\* strptime(s, '%b %d %Y')
Strptime_bdY(s) == FullDate(s, MonthAt(s), FullDateMatches(s))

---------------------------------------------------------------------------
(* datetime.strftime('%Y-%m-%d') *)

RECURSIVE Decimal(_)
Decimal(n) == IF n < 10 THEN <<Digits[n + 1]>>
              ELSE Decimal(n \div 10) \o <<Digits[(n % 10) + 1]>>

RECURSIVE ZeroPad(_, _)
ZeroPad(str, width) == IF Len(str) >= width THEN str ELSE ZeroPad(<<"0">> \o str, width)

\* %Y: CPython 2 raises ValueError before 1900; glibc's strftime does not pad
Strftime(d, plat) ==
  IF plat = "py2" /\ d.year < 1900
  THEN [exc |-> YearBefore1900, value |-> <<>>]
  ELSE LET y == IF plat = "py3_glibc" THEN Decimal(d.year) ELSE ZeroPad(Decimal(d.year), 4)
       IN [exc |-> NoError,
           value |-> y \o <<"-">> \o ZeroPad(Decimal(d.month), 2)
                       \o <<"-">> \o ZeroPad(Decimal(d.day), 2)]

---------------------------------------------------------------------------
(* DateToISOString *)

\* the try/except chain of lines 34-43: the first parse that succeeds
FirstParsed(full, monthyear, yearonly) ==
  IF full.ok THEN full ELSE IF monthyear.ok THEN monthyear ELSE yearonly

\* the date lines 34-43 bind to new_date, NoDate when line 43 raises
ParseDate(s) == FirstParsed(Strptime_bdY(s), Strptime_bY(s), Strptime_Y(s))

\* lines 43 and 45
Format(new_date, plat) ==
  IF ~new_date.ok THEN [exc |-> BadDate, value |-> <<>>] ELSE Strftime(new_date, plat)

\* [exc |-> NoError, value |-> the returned string] or [exc |-> the exception raised]
DateToISOString(s, plat) == Format(ParseDate(s), plat)

---------------------------------------------------------------------------
(* Inputs of GetQueryVolumes *)

ApiKeys == {None, "", "AIzaSyKEY"}
GeoLevels == {"country", "region", "dma", "province"}
Values == {5, 7}

\* date strings the remote service sends: 'Jul 04 2004', '2004', '13/45/2020'
DateStrings == { <<"J", "u", "l", " ", "0", "4", " ", "2", "0", "0", "4">>,
                 <<"2", "0", "0", "4">>,
                 <<"1", "3", "/", "4", "5", "/", "2", "0", "2", "0">> }

\* the list of length n that repeats base
Cycle(base, n) == [i \in 1..n |-> base[((i - 1) % Len(base)) + 1]]
QueryBases == { <<"flu", "cough">> }
AllTerms == UNION { {b[i] : i \in 1..Len(b)} : b \in QueryBases }
\* no query, and up to MaxBatches batches with a full or a short last batch
QueryLens == {0, MAX_QUERIES} \cup {k * MAX_QUERIES + 2 : k \in 0..(MaxBatches - 1)}
QueryLists == {Cycle(b, n) : b \in QueryBases, n \in QueryLens}

\* the response lines for a sequence of (term, date, value) points: consecutive
\* points of one term form one line
RECURSIVE GroupLines(_)
GroupLines(pts) ==
  IF pts = <<>> THEN <<>>
  ELSE LET rest == GroupLines(Tail(pts))
           p    == [date |-> Head(pts)[2], value |-> Head(pts)[3]]
       IN IF rest # <<>> /\ rest[1].term = Head(pts)[1]
          THEN <<[term |-> rest[1].term, points |-> <<p>> \o rest[1].points]>> \o Tail(rest)
          ELSE <<[term |-> Head(pts)[1], points |-> <<p>>]>> \o rest

\* the responses the remote service can give to a request for a set of terms
ResponsesFor ==
  [terms \in SUBSET AllTerms |->
     { [lines |-> GroupLines(f)] :
         f \in UNION { [1..n -> terms \X DateStrings \X Values] : n \in 0..MaxPoints } }]
Responses(batch) == ResponsesFor[{batch[i] : i \in 1..Len(batch)}]

\* the points of a response in the order the service lists them, each as
\* <<term, date string, value>>
RECURSIVE PointsOf(_)
PointsOf(lines) ==
  IF lines = <<>> THEN <<>>
  ELSE [j \in 1..Len(Head(lines).points) |->
          <<Head(lines).term, Head(lines).points[j].date, Head(lines).points[j].value>>]
       \o PointsOf(Tail(lines))

\* the history of received values after a response: for every (term, date
\* string) the value of the last point that carried it
ReceivedPoints(seen, pts) ==
  LET keys == {<<pts[i][1], pts[i][2]>> : i \in 1..Len(pts)}
  IN [k \in (DOMAIN seen) \cup keys |->
        IF k \in keys
        THEN pts[CHOOSE i \in 1..Len(pts) :
                   /\ <<pts[i][1], pts[i][2]>> = k
                   /\ \A j \in (i + 1)..Len(pts) : <<pts[j][1], pts[j][2]>> # k][3]
        ELSE seen[k]]

Received(seen, r) == ReceivedPoints(seen, PointsOf(r.lines))

---------------------------------------------------------------------------
(* GetQueryVolumes: helpers *)

EmptyDict == [k \in {} |-> 0]

\* dict.get(key, default)
Get(d, key, default) == IF key \in DOMAIN d THEN d[key] ELSE default

\* a merge that keeps only the latest batch
Update_Replace(d, other) == other

\* d.update(other), line 123
Update(d, other) ==
  [k \in (DOMAIN d) \cup (DOMAIN other) |-> IF k \in DOMAIN other THEN other[k] ELSE d[k]]

\* a batch end that is one short of the batch size
BatchEnd_OneShort(start, qs) == Min(start + MAX_QUERIES - 1, Len(qs))

\* line 82
BatchEnd(start, qs) == Min(start + MAX_QUERIES, Len(qs))

\* line 83: qs[start:end], with Python's 0-based, end-exclusive indices
Slice(qs, start, end) == SubSeq(qs, start + 1, end)

\* lines 85-108: the name of the geography restriction field, None for the else branch
GeoField(level) ==
  CASE level = "country" -> "geoRestriction_country"
    [] level = "dma"     -> "geoRestriction_dma"
    [] level = "region"  -> "geoRestriction_region"
    [] OTHER             -> None

\* DateToISOString on the date strings of the model
ISOOf == [ds \in DateStrings, plat \in Platforms |-> DateToISOString(ds, plat)]

\* lines 117-120: the (key, value) items of the comprehension, in iteration
\* order (for line in lines, for point in points), with the outcome of
\* DateToISOString for each
Item(term, c, value) == [exc |-> c.exc, key |-> <<term, c.value>>, value |-> value]

ItemsOfLine(l, plat) ==
  [j \in 1..Len(l.points) |-> Item(l.term, ISOOf[l.points[j].date, plat], l.points[j].value)]

RECURSIVE Items(_, _)
Items(lines, plat) ==
  IF lines = <<>> THEN <<>> ELSE ItemsOfLine(Head(lines), plat) \o Items(Tail(lines), plat)

\* the exception that ends the comprehension: that of the first failing item
FirstError(items) ==
  IF \E i \in 1..Len(items) : items[i].exc # NoError
  THEN items[CHOOSE i \in 1..Len(items) :
               /\ items[i].exc # NoError
               /\ \A j \in 1..(i - 1) : items[j].exc = NoError].exc
  ELSE NoError

\* the dictionary the comprehension builds: a later item replaces an earlier
\* one with the same key
ResDict(items) ==
  [k \in {items[i].key : i \in 1..Len(items)} |->
     items[CHOOSE i \in 1..Len(items) :
             /\ items[i].key = k
             /\ \A j \in (i + 1)..Len(items) : items[j].key # k].value]

\* line 127: sorted(list(set(...))) of a set of strings
RECURSIVE Sorted(_)
Sorted(S) ==
  IF S = {} THEN <<>>
  ELSE LET m == CHOOSE x \in S : \A y \in S : x = y \/ StrLess(x, y)
       IN <<m>> \o Sorted(S \ {m})

\* the dates in descending order
SortedDates_Descending(d) ==
  LET asc == Sorted({k[2] : k \in DOMAIN d})
  IN [i \in 1..Len(asc) |-> asc[Len(asc) + 1 - i]]

\* line 127: the dates of the rows
SortedDates(d) == Sorted({k[2] : k \in DOMAIN d})

\* a row that leaves out the terms without a value for the date
Row_Sparse(d, qs, date) ==
  LET present == SelectSeq([i \in 1..Len(qs) |-> <<qs[i], date>>], LAMBDA k : k \in DOMAIN d)
  IN <<date>> \o [i \in 1..Len(present) |-> d[present[i]]]

\* lines 128-129: the row of one date
Row(d, qs, date) == <<date>> \o [i \in 1..Len(qs) |-> Get(d, <<qs[i], date>>, 0)]

\* lines 126 and 128-129
Rows(d, qs, dates) ==
  << <<"date">> \o qs >> \o [i \in 1..Len(dates) |-> Row(d, qs, dates[i])]

\* lines 126-131
Table(d, qs) == Rows(d, qs, SortedDates(d))

\* range(0, n, step), line 79
Range(n, step) == [i \in 1..((n + step - 1) \div step) |-> (i - 1) * step]

---------------------------------------------------------------------------
(* GetQueryVolumes: one action per step of the call *)

NoDateString == <<>>
NoOutcome == [exc |-> NoError, value |-> <<>>]

Init ==
  /\ platform \in Platforms
  /\ API_KEY \in ApiKeys
  /\ queries \in QueryLists
  /\ geo_level \in GeoLevels
  /\ pc = "start"
  /\ service = None
  /\ dat = EmptyDict
  /\ batch_intervals = <<>>
  /\ batch_start = 0
  /\ query_batch = <<>>
  /\ req = NoRequest
  /\ result = NoTable
  /\ error = NoError
  /\ fault = NoError
  /\ log = <<>>
  /\ requests = <<>>
  /\ observed = EmptyDict
  /\ datestring = NoDateString
  /\ iso = NoOutcome

\* a call that does not look at API_KEY
CheckKey_Unchecked ==
  /\ pc = "start"
  /\ pc' = "build"
  /\ UNCHANGED <<inputs, service, dat, batch_intervals, batch_start, query_batch,
                 req, result, error, fault, log, requests, observed, iso>>

\* lines 67-68
CheckKey ==
  /\ pc = "start"
  /\ IF Falsy(API_KEY)
     THEN pc' = "raised" /\ error' = KeyNotSet
     ELSE pc' = "build" /\ error' = error
  /\ UNCHANGED <<inputs, service, dat, batch_intervals, batch_start, query_batch,
                 req, result, fault, log, requests, observed, iso>>

\* lines 70-79: build() fetches the discovery document, then dat and the
\* batch intervals are set up
Build ==
  /\ pc = "build"
  /\ log' = Append(log, "build")
  /\ \/ /\ service' = "service"
        /\ dat' = EmptyDict
        /\ batch_intervals' = Range(Len(queries), MAX_QUERIES)
        /\ pc' = "loop"
        /\ UNCHANGED <<error, fault>>
     \/ \E e \in TransportErrors :
          /\ fault' = e
          /\ error' = e
          /\ pc' = "raised"
          /\ UNCHANGED <<service, dat, batch_intervals>>
  /\ UNCHANGED <<inputs, batch_start, query_batch, req, result, requests,
                 observed, iso>>

\* lines 81-108: the next batch and its request, or the end of the loop
LoopHead ==
  /\ pc = "loop"
  /\ IF batch_intervals = <<>>
     THEN /\ pc' = "table"
          /\ UNCHANGED <<batch_intervals, batch_start, query_batch, req, error>>
     ELSE LET start == Head(batch_intervals)
              batch == Slice(queries, start, BatchEnd(start, queries))
          IN /\ batch_intervals' = Tail(batch_intervals)
             /\ batch_start' = start
             /\ query_batch' = batch
             /\ IF GeoField(geo_level) = None
                THEN pc' = "raised" /\ error' = BadGeoLevel /\ req' = req
                ELSE /\ pc' = "execute"
                     /\ req' = [terms |-> batch, field |-> GeoField(geo_level)]
                     /\ error' = error
  /\ UNCHANGED <<inputs, service, dat, result, fault, log, requests, observed, iso>>

\* a request that is sent a second time when the transport raises
Execute_Retry ==
  /\ pc = "execute"
  /\ \/ /\ log' = Append(log, "request")
        /\ requests' = Append(requests, req.terms)
        /\ pc' = "sleep"
        /\ UNCHANGED <<error, fault>>
     \/ \E e \in TransportErrors :
          /\ log' = log \o <<"request", "request">>
          /\ requests' = requests \o <<req.terms, req.terms>>
          /\ fault' = e
          /\ error' = e
          /\ pc' = "raised"
  /\ UNCHANGED <<inputs, service, dat, batch_intervals, batch_start, query_batch,
                 req, result, observed, iso>>

\* line 110: the request is sent; it completes or the transport raises. The
\* content of the response is drawn where the program reads it, in Merge.
Execute ==
  /\ pc = "execute"
  /\ log' = Append(log, "request")
  /\ requests' = Append(requests, req.terms)
  /\ \/ /\ pc' = "sleep"
        /\ UNCHANGED <<error, fault>>
     \/ \E e \in TransportErrors :
          /\ fault' = e
          /\ error' = e
          /\ pc' = "raised"
  /\ UNCHANGED <<inputs, service, dat, batch_intervals, batch_start, query_batch,
                 req, result, observed, iso>>

\* a pause that is left out after the last batch
Sleep_SkipLast ==
  /\ pc = "sleep"
  /\ log' = IF batch_intervals = <<>> THEN log ELSE Append(log, "sleep")
  /\ pc' = "merge"
  /\ UNCHANGED <<inputs, service, dat, batch_intervals, batch_start, query_batch,
                 req, result, error, fault, requests, observed, iso>>

\* line 113
Sleep ==
  /\ pc = "sleep"
  /\ log' = Append(log, "sleep")
  /\ pc' = "merge"
  /\ UNCHANGED <<inputs, service, dat, batch_intervals, batch_start, query_batch,
                 req, result, error, fault, requests, observed, iso>>

\* a merge that drops a batch with a malformed date and goes on
MergeItems_SkipBadBatch(items) ==
  /\ dat' = IF FirstError(items) # NoError THEN dat ELSE Update(dat, ResDict(items))
  /\ pc' = "loop"
  /\ error' = error

\* lines 117-123 for the items of the comprehension
MergeItems(items) ==
  IF FirstError(items) # NoError
  THEN /\ pc' = "raised"
       /\ error' = FirstError(items)
       /\ dat' = dat
  ELSE /\ dat' = Update(dat, ResDict(items))
       /\ pc' = "loop"
       /\ error' = error

\* lines 117-123, for the response res that line 110 returned
Merge ==
  /\ pc = "merge"
  /\ \E res \in Responses(req.terms) :
       /\ observed' = Received(observed, res)
       /\ MergeItems(Items(res.lines, platform))
  /\ UNCHANGED <<inputs, service, batch_intervals, batch_start, query_batch, req,
                 result, fault, log, requests, iso>>

\* lines 126-131
MakeTable ==
  /\ pc = "table"
  /\ result' = Table(dat, queries)
  /\ pc' = "done"
  /\ UNCHANGED <<inputs, service, dat, batch_intervals, batch_start, query_batch,
                 req, error, fault, log, requests, observed, iso>>

Next == CheckKey \/ Build \/ LoopHead \/ Execute \/ Sleep \/ Merge \/ MakeTable

Spec == Init /\ [][Next]_vars

---------------------------------------------------------------------------
(* DateToISOString called on its own *)

MonthToks == { <<"J", "u", "l">>, <<"j", "u", "l">>, <<"F", "e", "b">>, <<"S", "E", "P">>,
               <<"X", "y", "z">>, <<>> }
Separators == { <<>>, <<" ">>, <<" ", " ">>, <<"/">> }
DayToks == { <<>>, <<"4">>, <<"0", "4">>, <<"1", "1">>, <<"2", "9">>, <<"3", "0">>,
             <<"3", "1">>, <<"4", "5">>, <<"0">> }
YearToks == { <<"2", "0", "0", "4">>, <<"2", "0", "1", "5">>, <<"1", "8", "5", "0">>,
              <<"0", "9", "9", "9">>, <<"0", "0", "0", "0">>, <<"2", "0", "0">>,
              <<"2", "0", "0", "4", "5">>, <<>> }

\* month, separator, day, separator, year, each possibly absent or malformed,
\* and '13/45/2020'
DateInputs ==
  { m \o a \o d \o b \o y :
      m \in MonthToks, a \in Separators, d \in DayToks, b \in Separators, y \in YearToks }
  \cup { <<"1", "3", "/", "4", "5", "/", "2", "0", "2", "0">> }

InitDate ==
  /\ platform \in Platforms
  /\ datestring \in DateInputs
  /\ iso = NoOutcome
  /\ pc = "date"
  /\ API_KEY = None
  /\ queries = <<>>
  /\ geo_level = "country"
  /\ service = None
  /\ dat = EmptyDict
  /\ batch_intervals = <<>>
  /\ batch_start = 0
  /\ query_batch = <<>>
  /\ req = NoRequest
  /\ result = NoTable
  /\ error = NoError
  /\ fault = NoError
  /\ log = <<>>
  /\ requests = <<>>
  /\ observed = EmptyDict

\* lines 24-45
Convert ==
  /\ pc = "date"
  /\ iso' = DateToISOString(datestring, platform)
  /\ pc' = "date_done"
  /\ UNCHANGED <<inputs, service, dat, batch_intervals, batch_start, query_batch,
                 req, result, error, fault, log, requests, observed>>

NextDate == Convert

SpecDate == InitDate /\ [][NextDate]_vars

---------------------------------------------------------------------------
(* Properties *)

Count(seq, x) == Cardinality({i \in 1..Len(seq) : seq[i] = x})

\* ceil(n / d)
CeilDiv(n, d) == CHOOSE k \in 0..n : k * d >= n /\ (k = 0 \/ (k - 1) * d < n)

\* the number of batches of the call
B == CeilDiv(Len(queries), MAX_QUERIES)

RECURSIVE Concat(_)
Concat(seqs) == IF seqs = <<>> THEN <<>> ELSE Head(seqs) \o Concat(Tail(seqs))

ValidGeoLevels == {"country", "region", "dma"}

\* the normalised form of a date string the service sent
ISO(ds) == ISOOf[ds, platform].value
WellFormed(ds) == ISOOf[ds, platform].exc = NoError

\* the <<term, ISO date>> keys the service reported so far
ReportedKeys == {<<k[1], ISO(k[2])>> : k \in DOMAIN observed}
\* the value the service last reported for a <<term, ISO date>> key
ReportedValue(key) ==
  observed[CHOOSE k \in DOMAIN observed : <<k[1], ISO(k[2])>> = key]

\* 'Jul 04 2004' -> '2004-07-04' and '2004' -> '2004-01-01'
Date20040704 == <<"2", "0", "0", "4", "-", "0", "7", "-", "0", "4">>
Date20040101 == <<"2", "0", "0", "4", "-", "0", "1", "-", "0", "1">>

\* C1: with a credential configured and a geo_level other than 'country',
\* 'region' or 'dma', the call fails with the geo_level ValueError for every
\* queries list, and neither the discovery build nor a timeline request happens.
C1_BadGeoLevelFailsBeforeNetwork ==
  (~Falsy(API_KEY) /\ geo_level \notin ValidGeoLevels) =>
     /\ log = <<>>
     /\ pc # "done"
     /\ (pc = "raised" => error = BadGeoLevel)

\* C2: without a configured API_KEY the call fails with the 'API_KEY not set.'
\* error as its first step: no service is built and no request is issued,
\* whatever the other arguments are.
C2_NoKeyFailsFirst ==
  Falsy(API_KEY) =>
     /\ pc \in {"start", "raised"}
     /\ (pc = "raised" => error = KeyNotSet)
     /\ log = <<>>
     /\ requests = <<>>
     /\ service = None
     /\ result = NoTable

C2_Witness ==
  /\ Falsy(API_KEY)
  /\ pc = "raised"
  /\ error = KeyNotSet
  /\ geo_level = "province"
  /\ Len(queries) > MAX_QUERIES

\* C3 as stated: in a successful call with B >= 1 batches exactly B - 1 pauses
\* occur and no pause lies between the last response and the return.
C3_PauseSkippedAfterLastBatch ==
  (pc = "done" /\ B >= 1) =>
     /\ Count(log, "sleep") = B - 1
     /\ log[Len(log)] # "sleep"

\* C3 as amended: in a successful call with B batches a pause follows the
\* request of every batch, the last one included: exactly B pauses occur, and
\* with B >= 1 the last of them lies between the last response and the return.
C3_PauseAfterEveryBatch ==
  pc = "done" =>
     /\ Count(log, "request") = B
     /\ Count(log, "sleep") = B
     /\ \A i \in 1..Len(log) :
          log[i] = "request" => (i < Len(log) /\ log[i + 1] = "sleep")
     /\ (B >= 1 => log[Len(log)] = "sleep")

C3_Witness ==
  /\ pc = "done"
  /\ B = 2
  /\ log = <<"build", "request", "sleep", "request", "sleep">>

\* C4: a successful call on n queries issues ceil(n/30) requests whose term
\* lists, concatenated in issue order, are queries; every batch has 1..30
\* terms and only the last may have fewer than 30.
C4_BatchesPartitionQueries ==
  pc = "done" =>
     /\ Len(requests) = CeilDiv(Len(queries), MAX_QUERIES)
     /\ Concat(requests) = queries
     /\ \A i \in 1..Len(requests) :
          /\ Len(requests[i]) >= 1
          /\ Len(requests[i]) <= MAX_QUERIES
          /\ (i < Len(requests) => Len(requests[i]) = MAX_QUERIES)

C4_Witness ==
  /\ pc = "done"
  /\ Len(queries) = MAX_QUERIES + 2
  /\ Len(requests) = 2
  /\ Len(requests[1]) = MAX_QUERIES
  /\ Len(requests[2]) = 2

\* C5: no partial result: once a request failed or a response carried a
\* malformed date the call has raised that error and returned no table, however
\* many batches were merged before; a table is returned only after every batch
\* was requested and parsed.
C5_NoPartialResult ==
  /\ (fault # NoError => (pc = "raised" /\ error = fault))
  /\ ((\E k \in DOMAIN observed : ~WellFormed(k[2])) =>
        (pc = "raised" /\
         error \in {ISOOf[k[2], platform].exc : k \in {x \in DOMAIN observed : ~WellFormed(x[2])}}))
  /\ (pc = "raised" => (result = NoTable /\ error # NoError))
  /\ (result # NoTable =>
        /\ pc = "done"
        /\ error = NoError
        /\ Len(requests) = B
        /\ \A k \in DOMAIN observed : WellFormed(k[2]))

C5_Witness ==
  /\ pc = "raised"
  /\ error = BadDate
  /\ dat # EmptyDict
  /\ Len(requests) = 2
  /\ result = NoTable

\* C6: the returned table is dense and aligned with queries: the first row is
\* 'date' followed by queries (duplicates kept); every later row is a date
\* followed by one cell per query, the value the service last reported for
\* (query, date) if it reported one and 0 otherwise.
C6_TableDenseAndAligned ==
  pc = "done" =>
     /\ Len(result) >= 1
     /\ result[1] = <<"date">> \o queries
     /\ \A r \in 2..Len(result) :
          /\ Len(result[r]) = 1 + Len(queries)
          /\ \A i \in 1..Len(queries) :
               result[r][i + 1] =
                 IF <<queries[i], result[r][1]>> \in ReportedKeys
                 THEN ReportedValue(<<queries[i], result[r][1]>>)
                 ELSE 0

C6_Witness ==
  /\ pc = "done"
  /\ queries = <<"flu", "cough">>
  /\ result = << <<"date", "flu", "cough">>, <<Date20040704, 5, 0>> >>

\* C7: the data rows of the returned table have pairwise distinct dates in
\* strictly ascending order of the ISO string, and their dates are exactly the
\* dates of the points received in the responses.
C7_RowsSortedUniqueComplete ==
  pc = "done" =>
     /\ \A r \in 2..(Len(result) - 1) : StrLess(result[r][1], result[r + 1][1])
     /\ \A r1, r2 \in 2..Len(result) : (result[r1][1] = result[r2][1]) => (r1 = r2)
     /\ {result[r][1] : r \in 2..Len(result)} = {ISO(k[2]) : k \in DOMAIN observed}

C7_Witness ==
  /\ pc = "done"
  /\ Len(requests) = 2
  /\ Len(result) = 3
  /\ result[2][1] = Date20040101
  /\ result[3][1] = Date20040704
  /\ result[2][2] = 0
  /\ result[3][2] = 0

\* while every received date is well formed, dat holds exactly the keys
\* reported so far, each with the value reported last
C8_DatHoldsLatest ==
  (\A k \in DOMAIN observed : WellFormed(k[2])) =>
     /\ DOMAIN dat = ReportedKeys
     /\ \A key \in DOMAIN dat : dat[key] = ReportedValue(key)

\* a merge removes no key, changes the value only of a key the merged batch
\* reports, and leaves every reported key with the value reported last
C8_MergeStep ==
  (pc = "merge" /\ pc' = "loop") =>
     /\ \A key \in DOMAIN dat :
          /\ key \in DOMAIN dat'
          /\ (dat'[key] # dat[key] =>
                \E k \in DOMAIN observed' :
                   /\ <<k[1], ISOOf[k[2], platform].value>> = key
                   /\ (k \notin DOMAIN observed \/ observed'[k] # observed[k])
                   /\ observed'[k] = dat'[key])
     /\ \A k \in DOMAIN observed' :
          /\ <<k[1], ISOOf[k[2], platform].value>> \in DOMAIN dat'
          /\ dat'[<<k[1], ISOOf[k[2], platform].value>>] = observed'[k]

\* C8: after each merge dat holds every key reported by the merged batch and
\* by all earlier batches; a merge changes the value only of keys the merged
\* batch reports (the value reported last wins) and removes or alters no other.
C8_MergeKeepsEarlierBatches == [](C8_DatHoldsLatest) /\ [][C8_MergeStep]_vars

\* two batches merged, with keys of both in dat
C8_Witness ==
  /\ pc = "loop"
  /\ Len(requests) = 2
  /\ Cardinality(DOMAIN dat) = 3
  /\ <<"flu", Date20040704>> \in DOMAIN dat
  /\ <<"cough", Date20040101>> \in DOMAIN dat

\* C10: requests go out one at a time in batch order without retry: when the
\* request of batch N fails in the transport, the caller gets that very error,
\* exactly N requests were issued (batches 1..N, once each) and nothing more
\* is sent.
C10_NoRetryAfterTransportFailure ==
  /\ \A i \in 1..Len(requests) :
       requests[i] = SubSeq(queries, (i - 1) * MAX_QUERIES + 1,
                            Min(i * MAX_QUERIES, Len(queries)))
  /\ Count(log, "request") = Len(requests)
  /\ ((pc = "raised" /\ fault # NoError /\ service # None) =>
        /\ error = fault
        /\ Len(requests) = (batch_start \div MAX_QUERIES) + 1
        /\ requests[Len(requests)] = query_batch
        /\ ~ ENABLED Next)

C10_Witness ==
  /\ pc = "raised"
  /\ fault \in TransportErrors
  /\ error = fault
  /\ Len(requests) = 2
  /\ dat # EmptyDict

\* the form YYYY-MM-DD
IsISOForm(v) ==
  /\ Len(v) = 10
  /\ \A i \in {1, 2, 3, 4, 6, 7, 9, 10} : v[i] \in DigitSet
  /\ v[5] = "-"
  /\ v[8] = "-"

\* the result v is the ISO form of year y, month m, day d
IsISOOf(v, y, m, d) ==
  /\ IsISOForm(v)
  /\ Year4(v, 1) = y
  /\ 10 * DigitVal(v[6]) + DigitVal(v[7]) = m
  /\ 10 * DigitVal(v[9]) + DigitVal(v[10]) = d

\* what C9 says of the outcome of a call: the first of full date, month-year,
\* year-only that matches decides the fields, with day 01 and month 01 filled in
ConvertedAsStated ==
  LET full == Strptime_bdY(datestring)
      my   == Strptime_bY(datestring)
      yo   == Strptime_Y(datestring)
  IN IF full.ok
     THEN iso.exc = NoError /\ IsISOOf(iso.value, full.year, full.month, full.day)
     ELSE IF my.ok
     THEN iso.exc = NoError /\ IsISOOf(iso.value, my.year, my.month, 1)
     ELSE IF yo.ok
     THEN iso.exc = NoError /\ IsISOOf(iso.value, yo.year, 1, 1)
     ELSE iso.exc = BadDate /\ iso.value = <<>>

\* C9: DateToISOString takes the first of the patterns full date, month-year,
\* year-only that matches the whole string and returns its year, month and day
\* (day 01, month 01 where the pattern has none) in the form YYYY-MM-DD; a
\* string that matches none raises the date ValueError.
C9_DateToISOString == pc = "date_done" => ConvertedAsStated

\* the same for the strings whose year is 1900 or later
DateToISOStringFrom1900 ==
  (pc = "date_done" /\ (ParseDate(datestring).ok => ParseDate(datestring).year >= 1900))
     => ConvertedAsStated

\* a year-only string before the year 1000 has been converted
EarlyYearConverted ==
  /\ pc = "date_done"
  /\ datestring = <<"0", "9", "9", "9">>
  /\ platform = "py3_glibc"
  /\ iso = [exc |-> NoError, value |-> <<"9", "9", "9", "-", "0", "1", "-", "0", "1">>]

====
